---- MODULE Spec2Model ----
(***************************************************************************)
(* The market-making quoting engine of vaults-backend (class MarketMaker,  *)
(* given cell by cell in src/vaults-backend/README.md).                    *)
(*                                                                         *)
(* Conventions.                                                            *)
(*  - An Optional value is a sequence: << >> is Python's None, <<v>> is v. *)
(*  - Prices are in hundredths (Decimal('0.01') is 1), sizes and positions *)
(*    in whole units, skews in hundredths (1.0 is 100).                    *)
(*  - pc is the await at which the coroutine start_interval_loop is        *)
(*    suspended; another task runs only while it is suspended.             *)
(*  - cancel_all_orders, update_position and the DriftAPI client are      *)
(*    defined outside README.md; their outcomes follow the written         *)
(*    specification and are marked so where they are defined.              *)
(***************************************************************************)
EXTENDS Integers, Sequences, FiniteSets, TLC

VARIABLES
    \* ---- fields of MarketMaker (README.md 241-261)
    config,             \* MarketMakerConfig, immutable per run
    current_orders,     \* Dict[int, OrderParams]: key -> [side, level]
    position_size,
    last_trade_price,   \* Optional price
    order_book,         \* [bids, asks]: sequences of <<price, size>>
    vwap,               \* Optional price
    last_price_update,
    volatility,         \* in units of Decimal('0.01')
    price_history,      \* List[Decimal]: the prices fed to update_volatility
    last_health_check,
    is_healthy,
    is_running,
    \* ---- the environment
    now,                \* time.time(), whole seconds
    place_orders_def,   \* which of the two place_orders definitions is bound
    \* ---- the running coroutine
    pc,
    exc,                \* the step whose exception the loop is handling, or "none"
    quotes,             \* place_orders: the list being submitted
    qi,                 \* place_orders: index of the next submission
    order_id,           \* place_orders: the local order_id (Optional key)
    \* ---- function-level harness: arguments and returned value
    args,
    ret,
    \* ---- observations (never read by the program)
    stop_requested,     \* an external task has asked the loop to stop
    late_tick,          \* a tick began after the stop request
    reset_failed,       \* a reset raised part-way
    checks,             \* health checks and resets, see HealthCheck
    recovered,          \* a tick began after an exception raised outside reset
    inv_order,          \* Optional market order requested in this tick
    placed,             \* outcome of each submission of this tick's place_orders
    steps               \* the calls made so far in this tick, in call order

engineVars == <<config, current_orders, position_size, last_trade_price,
                order_book, vwap, last_price_update, volatility, price_history,
                last_health_check, is_healthy, is_running>>
envVars    == <<now, place_orders_def>>
localVars  == <<quotes, qi, order_id>>
unitVars   == <<args, ret>>
obsVars    == <<stop_requested, late_tick, reset_failed, checks, recovered,
                inv_order, placed, steps>>
vars       == <<engineVars, envVars, pc, exc, localVars, unitVars, obsVars>>

(***************************************************************************)
(* Bounds of the model.                                                    *)
(***************************************************************************)
\* time.time() when the loop starts; the epoch clock is far past the intervals
StartTime == 60
\* seconds of wall-clock the model follows after the start
Horizon == 12
\* identifiers the exchange can hand out to live orders
MaxOrderId == 5
\* longest quote list handed to the quote-ladder place_orders
MaxQuotes == 4

(***************************************************************************)
(* Program constants.                                                      *)
(***************************************************************************)
health_check_interval == 60
price_update_interval == 60
inventory_extreme == 50
\* asyncio.sleep(interval_ms / 1000) with the default interval_ms = 1000
TickSleep == 1
\* asyncio.sleep(10) in the except clause
BackoffSleep == 10
\* the synthetic book: five levels a side, each of size Decimal('10')
BookLevels == 5
BookLevelSize == 10

MaxTime == StartTime + Horizon

Abs(x) == IF x < 0 THEN -x ELSE x
Min(a, b) == IF a <= b THEN a ELSE b
Max(a, b) == IF a >= b THEN a ELSE b

EmptyMap == [k \in {} |-> 0]
Put(m, k, v) == [x \in (DOMAIN m) \cup {k} |-> IF x = k THEN v ELSE m[x]]

EmptyBook == [bids |-> << >>, asks |-> << >>]
\* update_order_book's synthetic book around the latest trade price
SyntheticBook(mid) ==
    [bids |-> [i \in 1..BookLevels |-> <<mid - i, BookLevelSize>>],
     asks |-> [i \in 1..BookLevels |-> <<mid + i, BookLevelSize>>]]

(***************************************************************************)
(* Values the environment can supply.                                      *)
(***************************************************************************)
\* positions the exchange reports (get_position; None is reported as 0)
ExchangePositions == {0, 120}
\* latest trade / oracle prices, in hundredths
TradePrices == {10000}
\* configurations the control loop is run with: one that satisfies
\* min_order_size <= max_order_size and base_spread > 0, and two that do not
LoopConfigs ==
    {[inventory_target |-> 0, max_position_size |-> 100, order_size |-> 10,
      base_spread |-> b, num_levels |-> 1, min_order_size |-> m[1],
      max_order_size |-> m[2]] :
        b \in {10}, m \in {<<1, 10>>}}
    \cup
    {[inventory_target |-> 0, max_position_size |-> 100, order_size |-> 10,
      base_spread |-> 0, num_levels |-> 1, min_order_size |-> 1,
      max_order_size |-> 10],
     [inventory_target |-> 0, max_position_size |-> 100, order_size |-> 10,
      base_spread |-> 10, num_levels |-> 1, min_order_size |-> 10,
      max_order_size |-> 1]}

(***************************************************************************)
(* The DriftAPI client and the two helpers that are not in the source.     *)
(***************************************************************************)
\* get_position / update_position: the exchange answers with a position, or
\* the call fails (a timeout surfaces as an ordinary exception)
update_position_outcomes ==
    {[raised |-> FALSE, position |-> p] : p \in ExchangePositions}
        \cup {[raised |-> TRUE, position |-> 0]}

\* cancel_all_orders: every tracked order is cancelled and the tracked set is
\* left empty (the set is replaced wholesale), or the call fails and leaves
\* the tracked set as it was
cancel_all_orders_outcomes(orders) ==
    {[raised |-> FALSE, orders |-> EmptyMap], [raised |-> TRUE, orders |-> orders]}

\* the identifier the exchange gives an accepted order: one that no live or
\* just-issued order carries
FreshIds(orders, issued) ==
    LET free == (1..MaxOrderId) \ ((DOMAIN orders) \cup issued)
    IN IF free = {} THEN {} ELSE {CHOOSE k \in free : \A j \in free : k <= j}

IssuedIds(log) == {log[i].id : i \in {j \in DOMAIN log : log[j].kind = "id"}}

\* place_order_and_get_order_id returns (tx_sig, order_id), (tx_sig, None) or
\* None; kind "raise" is the call raising instead of returning
place_order_results(orders, log) ==
    {[kind |-> "id", id |-> k] : k \in FreshIds(orders, IssuedIds(log))}
        \cup {[kind |-> "noid", id |-> 0], [kind |-> "none", id |-> 0],
              [kind |-> "raise", id |-> 0]}

(***************************************************************************)
(* manage_inventory (README.md 1045-1063): the market order it requests.   *)
(***************************************************************************)
manage_inventory_order(position, cfg) ==
    IF Abs(position - cfg.inventory_target) > cfg.order_size
    THEN <<[direction |-> IF position > cfg.inventory_target THEN "Short" ELSE "Long",
            size |-> Min(Abs(position - cfg.inventory_target),
                         cfg.max_position_size - Abs(position))]>>
    ELSE << >>

\* the position after a market order of that size fills in its direction
PositionAfter(position, order) ==
    IF order.direction = "Short" THEN position - order.size ELSE position + order.size

(***************************************************************************)
(* The control loop: start_interval_loop, health-checking version          *)
(* (README.md 779-805), with health_check (822-835) and reset (740-762).   *)
(***************************************************************************)
\* while self.is_running: the next tick begins, or the loop ends
LoopTest(running) == IF running THEN "health_check" ELSE "stopped"

AfterException_ends_loop(running) == "stopped"
AfterException_always_retries(running) == "health_check"
\* except Exception: log, sleep 10 seconds, back to the while test
AfterException(running) == LoopTest(running)

ResetState_keeps_health ==
    [current_orders |-> EmptyMap, position_size |-> 0, last_trade_price |-> << >>,
     order_book |-> EmptyBook, last_health_check |-> last_health_check,
     is_healthy |-> is_healthy]
ResetState_keeps_orders ==
    [current_orders |-> current_orders, position_size |-> 0,
     last_trade_price |-> << >>, order_book |-> EmptyBook,
     last_health_check |-> 0, is_healthy |-> TRUE]
\* reset, lines 751-756: the fields cleared between the two awaits
ResetState ==
    [current_orders |-> EmptyMap, position_size |-> 0, last_trade_price |-> << >>,
     order_book |-> EmptyBook, last_health_check |-> 0, is_healthy |-> TRUE]

\* no health check has run yet
NoChecks ==
    [last |-> "none", resets |-> 0, gap |-> -1, at |-> -1, apart |-> -1,
     pending |-> FALSE]

\* a tick that begins once a stop has been requested
Late(nextpc) == late_tick \/ (stop_requested /\ nextpc = "health_check")

\* an exception propagates to the except clause of the loop
Raise(step) ==
    /\ exc' = step
    /\ pc' = "backoff"
    /\ reset_failed' = (reset_failed \/ step = "reset")

Init ==
    /\ config \in LoopConfigs
    /\ current_orders = EmptyMap
    /\ position_size \in ExchangePositions
    /\ last_trade_price = << >>
    /\ order_book = EmptyBook
    /\ vwap = << >>
    /\ last_price_update = 0
    /\ volatility = 1
    /\ price_history = << >>
    /\ last_health_check = 0
    /\ is_healthy = TRUE
    /\ is_running = FALSE
    /\ now = StartTime
    /\ place_orders_def \in {"quotes", "levels"}
    /\ pc = "idle"
    /\ exc = "none"
    /\ quotes = << >>
    /\ qi = 0
    /\ order_id = << >>
    /\ args = << >>
    /\ ret = << >>
    /\ stop_requested = FALSE
    /\ late_tick = FALSE
    /\ reset_failed = FALSE
    /\ checks = NoChecks
    /\ recovered = FALSE
    /\ inv_order = << >>
    /\ placed = << >>
    /\ steps = << >>

\* self.is_running = True, and the first test of the while condition
Start ==
    /\ pc = "idle"
    /\ is_running' = TRUE
    /\ pc' = LoopTest(TRUE)
    /\ UNCHANGED <<config, current_orders, position_size, last_trade_price,
                   order_book, vwap, last_price_update, volatility, price_history,
                   last_health_check, is_healthy>>
    /\ UNCHANGED <<envVars, exc, localVars, unitVars, obsVars>>

\* another task clears is_running while the loop is suspended
Stop ==
    /\ pc \notin {"idle", "stopped"}
    /\ ~stop_requested
    /\ is_running' = FALSE
    /\ stop_requested' = TRUE
    /\ UNCHANGED <<config, current_orders, position_size, last_trade_price,
                   order_book, vwap, last_price_update, volatility, price_history,
                   last_health_check, is_healthy>>
    /\ UNCHANGED <<envVars, pc, exc, localVars, unitVars>>
    /\ UNCHANGED <<late_tick, reset_failed, checks, recovered, inv_order, placed,
                   steps>>

\* await self.health_check(); if not self.is_healthy: await self.reset()
\* up to reset's first await.  checks.resets counts the resets begun since the
\* last query of the exchange; checks.gap is that count at a failed query
\* which follows a failed query (-1 otherwise); checks.at is the time of the
\* last get_market query and checks.apart the time between the last two;
\* checks.pending says a check has failed and no reset has completed since.
HealthCheck ==
    /\ pc = "health_check"
    /\ \E answered \in BOOLEAN :
        LET due == now - last_health_check >= health_check_interval
            healthy == IF due THEN answered ELSE is_healthy
        IN  /\ (~due) => answered
            /\ last_health_check' = IF due THEN now ELSE last_health_check
            /\ is_healthy' = healthy
            /\ is_running' = IF healthy THEN is_running ELSE FALSE
            /\ pc' = IF healthy THEN "update_order_book" ELSE "reset_cancel"
            /\ checks' =
                 IF due
                 THEN [last |-> IF answered THEN "ok" ELSE "fail",
                       resets |-> IF healthy THEN 0 ELSE 1,
                       gap |-> IF checks.last = "fail" /\ ~answered
                               THEN checks.resets ELSE -1,
                       at |-> now,
                       apart |-> IF checks.at >= 0 THEN now - checks.at ELSE -1,
                       pending |-> (checks.pending \/ ~answered)]
                 ELSE [checks EXCEPT !.resets =
                                         IF healthy THEN @ ELSE Min(@ + 1, 3),
                                     !.pending = (@ \/ ~healthy)]
    /\ UNCHANGED <<config, current_orders, position_size, last_trade_price,
                   order_book, vwap, last_price_update, volatility, price_history>>
    /\ UNCHANGED <<envVars, exc, localVars, unitVars>>
    /\ UNCHANGED <<stop_requested, late_tick, reset_failed, recovered, inv_order,
                   placed, steps>>

\* reset: await self.cancel_all_orders(), then lines 751-756
ResetCancel ==
    /\ pc = "reset_cancel"
    /\ \E c \in cancel_all_orders_outcomes(current_orders) :
        IF c.raised
        THEN /\ Raise("reset")
             /\ UNCHANGED <<current_orders, position_size, last_trade_price,
                            order_book, last_health_check, is_healthy>>
        ELSE /\ current_orders' = ResetState.current_orders
             /\ position_size' = ResetState.position_size
             /\ last_trade_price' = ResetState.last_trade_price
             /\ order_book' = ResetState.order_book
             /\ last_health_check' = ResetState.last_health_check
             /\ is_healthy' = ResetState.is_healthy
             /\ pc' = "reset_position"
             /\ UNCHANGED <<exc, reset_failed>>
    /\ UNCHANGED <<config, vwap, last_price_update, volatility,
                   price_history, is_running>>
    /\ UNCHANGED <<envVars, localVars, unitVars>>
    /\ UNCHANGED <<stop_requested, late_tick, checks, recovered, inv_order, placed,
                   steps>>

\* reset: await self.update_position(); self.is_running = True; continue
ResetPosition ==
    /\ pc = "reset_position"
    /\ \E u \in update_position_outcomes :
        IF u.raised
        THEN /\ Raise("reset")
             /\ UNCHANGED <<position_size, is_running, late_tick, checks>>
        ELSE /\ position_size' = u.position
             /\ is_running' = TRUE
             /\ pc' = LoopTest(TRUE)
             /\ late_tick' = Late(LoopTest(TRUE))
             /\ checks' = [checks EXCEPT !.pending = FALSE]
             /\ UNCHANGED <<exc, reset_failed>>
    /\ UNCHANGED <<config, current_orders, last_trade_price, order_book, vwap,
                   last_price_update, volatility,
                   price_history, last_health_check, is_healthy>>
    /\ UNCHANGED <<envVars, localVars, unitVars>>
    /\ UNCHANGED <<stop_requested, recovered, inv_order, placed, steps>>

\* update_order_book (README.md 852-887): never raises; with trade records for
\* the market it caches the latest price and a synthetic book around it
UpdateOrderBook ==
    /\ pc = "update_order_book"
    /\ \/ \E p \in TradePrices :
            /\ last_trade_price' = <<p>>
            /\ order_book' = SyntheticBook(p)
       \/ UNCHANGED <<last_trade_price, order_book>>
    /\ pc' = "update_position"
    /\ steps' = Append(steps, "update_order_book")
    /\ UNCHANGED <<config, current_orders, position_size, vwap, last_price_update,
                   volatility,
                   price_history, last_health_check, is_healthy, is_running>>
    /\ UNCHANGED <<envVars, exc, localVars, unitVars>>
    /\ UNCHANGED <<stop_requested, late_tick, reset_failed, checks, recovered,
                   inv_order, placed>>

UpdatePosition ==
    /\ pc = "update_position"
    /\ \E u \in update_position_outcomes :
        IF u.raised
        THEN /\ Raise("update_position")
             /\ UNCHANGED position_size
        ELSE /\ position_size' = u.position
             /\ pc' = "update_vwap"
             /\ UNCHANGED <<exc, reset_failed>>
    /\ steps' = Append(steps, "update_position")
    /\ UNCHANGED <<config, current_orders, last_trade_price, order_book, vwap,
                   last_price_update, volatility,
                   price_history, last_health_check, is_healthy,
                   is_running>>
    /\ UNCHANGED <<envVars, localVars, unitVars>>
    /\ UNCHANGED <<stop_requested, late_tick, checks, recovered, inv_order, placed>>

\* update_vwap (README.md 400-429): rate-limited, never raises
UpdateVwap ==
    /\ pc = "update_vwap"
    /\ \/ /\ now - last_price_update >= price_update_interval
          /\ \E v \in TradePrices :
                /\ vwap' = <<v>>
                /\ last_price_update' = now
       \/ UNCHANGED <<vwap, last_price_update>>
    /\ pc' = "manage_inventory"
    /\ steps' = Append(steps, "update_vwap")
    /\ UNCHANGED <<config, current_orders, position_size, last_trade_price,
                   order_book, volatility, price_history, last_health_check, is_healthy,
                   is_running>>
    /\ UNCHANGED <<envVars, exc, localVars, unitVars>>
    /\ UNCHANGED <<stop_requested, late_tick, reset_failed, checks, recovered,
                   inv_order, placed>>

\* manage_inventory: the market order is requested with drift_api.place_order,
\* which may raise
ManageInventory ==
    /\ pc = "manage_inventory"
    /\ inv_order' = manage_inventory_order(position_size, config)
    /\ \/ /\ pc' = "place_orders"
          /\ UNCHANGED <<exc, reset_failed>>
       \/ /\ manage_inventory_order(position_size, config) # << >>
          /\ Raise("manage_inventory")
    /\ steps' = Append(steps, "manage_inventory")
    /\ UNCHANGED <<engineVars, envVars, localVars, unitVars>>
    /\ UNCHANGED <<stop_requested, late_tick, checks, recovered, placed>>

(***************************************************************************)
(* place_orders as the loop calls it.  The source gives two definitions:   *)
(* the quote-ladder one (README.md 671-697) and the level-based one        *)
(* (README.md 973-1028); place_orders_def says which one the class binds.  *)
(***************************************************************************)
\* generate_quotes, line 638: bid_skew, ask_skew = self._skew().  _skew is
\* declared "async def" (line 307) and is called without await, so the call
\* yields a coroutine object and unpacking it raises TypeError before any
\* quote is built: generate_quotes never returns a list.
generate_quotes_raises == TRUE

\* the key a Python dict gets from current_orders[None] = ...
NoneKey == 0

\* level-based place_orders: one Buy and one Sell submission per level
LevelQuotes(n) ==
    [k \in 1..(2 * n) |->
        [side |-> IF k % 2 = 1 THEN "Buy" ELSE "Sell", level |-> (k + 1) \div 2]]

\* level-based place_orders, lines 993-1000 and 1016-1023: what the local
\* order_id is bound to after a submission returned
BindOrderId(local, result) ==
    IF result.kind = "id" THEN <<result.id>>
    ELSE IF result.kind = "noid" THEN <<NoneKey>>
    ELSE local

Logged(params, result) == [params |-> params, kind |-> result.kind, id |-> result.id]

\* await self.cancel_all_orders(), then up to the first submission
PlaceOrders ==
    /\ pc = "place_orders"
    /\ \E c \in cancel_all_orders_outcomes(current_orders) :
        /\ current_orders' = c.orders
        /\ \/ /\ c.raised
              /\ Raise("place_orders")
              /\ steps' = Append(steps, "cancel_all_orders")
              /\ UNCHANGED <<localVars, placed>>
           \/ /\ ~c.raised
              /\ place_orders_def = "quotes"
              /\ generate_quotes_raises
              /\ Raise("place_orders")
              /\ steps' = steps \o <<"cancel_all_orders", "generate_quotes">>
              /\ placed' = << >>
              /\ UNCHANGED localVars
           \/ /\ ~c.raised
              /\ place_orders_def = "levels"
              /\ steps' = steps \o <<"cancel_all_orders", "calculate_order_prices">>
              /\ placed' = << >>
                 \* calculate_order_prices reads the oracle price with
                 \* get_market_price_data, which may raise
              /\ \/ /\ Raise("place_orders")
                    /\ UNCHANGED localVars
                 \/ /\ quotes' = LevelQuotes(config.num_levels)
                    /\ qi' = 1
                    /\ order_id' = << >>
                    /\ pc' = IF config.num_levels = 0 THEN "last_price" ELSE "submit"
                    /\ UNCHANGED <<exc, reset_failed>>
    /\ UNCHANGED <<config, position_size, last_trade_price, order_book, vwap,
                   last_price_update, volatility,
                   price_history, last_health_check, is_healthy,
                   is_running>>
    /\ UNCHANGED <<envVars, unitVars>>
    /\ UNCHANGED <<stop_requested, late_tick, checks, recovered, inv_order>>

\* level-based place_orders: one submission and the assignment
\* self.current_orders[order_id] = params that follows it unconditionally;
\* with order_id never bound the assignment raises UnboundLocalError
SubmitLevel ==
    /\ pc = "submit"
    /\ \E r \in place_order_results(current_orders, placed) :
        LET bound == BindOrderId(order_id, r)
        IN  /\ placed' = Append(placed, Logged(quotes[qi], r))
            /\ steps' = Append(steps, "submit")
            /\ IF r.kind = "raise" \/ bound = << >>
               THEN /\ Raise("place_orders")
                    /\ quotes' = << >>
                    /\ qi' = 0
                    /\ order_id' = << >>
                    /\ UNCHANGED current_orders
               ELSE /\ current_orders' = Put(current_orders, bound[1], quotes[qi])
                    /\ IF qi = Len(quotes)
                       THEN /\ pc' = "last_price"
                            /\ quotes' = << >>
                            /\ qi' = 0
                            /\ order_id' = << >>
                       ELSE /\ pc' = "submit"
                            /\ qi' = qi + 1
                            /\ order_id' = bound
                            /\ UNCHANGED quotes
                    /\ UNCHANGED <<exc, reset_failed>>
    /\ UNCHANGED <<config, position_size, last_trade_price, order_book, vwap,
                   last_price_update, volatility,
                   price_history, last_health_check, is_healthy,
                   is_running>>
    /\ UNCHANGED <<envVars, unitVars>>
    /\ UNCHANGED <<stop_requested, late_tick, checks, recovered, inv_order>>

\* lines 799-800: the last trade price is read from get_market_price_data
UpdateLastTradePrice ==
    /\ pc = "last_price"
    /\ \/ \E p \in TradePrices :
            /\ last_trade_price' = <<p>>
            /\ pc' = "sleep"
            /\ UNCHANGED <<exc, reset_failed>>
       \/ /\ Raise("last_price")
          /\ UNCHANGED last_trade_price
    /\ steps' = Append(steps, "last_price")
    /\ UNCHANGED <<config, current_orders, position_size, order_book, vwap,
                   last_price_update, volatility,
                   price_history, last_health_check, is_healthy,
                   is_running>>
    /\ UNCHANGED <<envVars, localVars, unitVars>>
    /\ UNCHANGED <<stop_requested, late_tick, checks, recovered, inv_order, placed>>

\* await asyncio.sleep(interval_ms / 1000), then the while test
Sleep ==
    /\ pc = "sleep"
    /\ now + TickSleep <= MaxTime
    /\ now' = now + TickSleep
    /\ pc' = LoopTest(is_running)
    /\ late_tick' = Late(LoopTest(is_running))
    /\ inv_order' = << >>
    /\ placed' = << >>
    /\ steps' = << >>
    /\ UNCHANGED <<engineVars, place_orders_def, exc, localVars, unitVars>>
    /\ UNCHANGED <<stop_requested, reset_failed, checks, recovered>>

\* the except clause: await asyncio.sleep(10), then the while test
Backoff ==
    /\ pc = "backoff"
    /\ now + BackoffSleep <= MaxTime
    /\ now' = now + BackoffSleep
    /\ pc' = AfterException(is_running)
    /\ late_tick' = Late(AfterException(is_running))
    /\ recovered' = (recovered \/ (/\ exc # "reset"
                                    /\ AfterException(is_running) = "health_check"))
    /\ exc' = "none"
    /\ inv_order' = << >>
    /\ placed' = << >>
    /\ steps' = << >>
    /\ UNCHANGED <<engineVars, place_orders_def, localVars, unitVars>>
    /\ UNCHANGED <<stop_requested, reset_failed, checks>>

Next ==
    \/ Start
    \/ Stop
    \/ HealthCheck
    \/ ResetCancel
    \/ ResetPosition
    \/ UpdateOrderBook
    \/ UpdatePosition
    \/ UpdateVwap
    \/ ManageInventory
    \/ PlaceOrders
    \/ SubmitLevel
    \/ UpdateLastTradePrice
    \/ Sleep
    \/ Backoff

Spec == Init /\ [][Next]_vars

(***************************************************************************)
(* The quote-ladder place_orders (README.md 671-697), run on its own with  *)
(* the quote list as its input: the list stands for what generate_quotes   *)
(* hands back, and current_orders starts with what earlier ticks left.     *)
(***************************************************************************)
TrackQuote_drops_accepted(orders, result, params) == orders
TrackQuote_keys_by_None(orders, result, params) ==
    IF result.kind = "id" THEN Put(orders, result.id, params)
    ELSE IF result.kind = "noid" THEN Put(orders, NoneKey, params)
    ELSE orders
\* lines 689-697: an entry is recorded only under a returned identifier
TrackQuote(orders, result, params) ==
    IF result.kind = "id" THEN Put(orders, result.id, params) ELSE orders

\* a ladder of n quotes: Buy levels first, then Sell levels
LadderQuotes(n) ==
    [k \in 1..n |->
        IF k <= n \div 2 THEN [side |-> "Buy", level |-> k]
        ELSE [side |-> "Sell", level |-> k - (n \div 2)]]

\* what earlier ticks may have left in current_orders
PriorOrders ==
    {EmptyMap,
     Put(EmptyMap, 1, [side |-> "Buy", level |-> 9]),
     Put(Put(EmptyMap, 1, [side |-> "Buy", level |-> 9]), 2,
         [side |-> "Sell", level |-> 9])}

IdleEngine ==
    /\ config \in LoopConfigs
    /\ position_size = 0
    /\ last_trade_price = << >>
    /\ order_book = EmptyBook
    /\ vwap = << >>
    /\ last_price_update = 0
    /\ volatility = 1
    /\ price_history = << >>
    /\ last_health_check = 0
    /\ is_healthy = TRUE
    /\ is_running = TRUE

NoObservations ==
    /\ stop_requested = FALSE
    /\ late_tick = FALSE
    /\ reset_failed = FALSE
    /\ checks = NoChecks
    /\ recovered = FALSE
    /\ inv_order = << >>
    /\ placed = << >>
    /\ steps = << >>

InitPlace ==
    /\ IdleEngine
    /\ current_orders \in PriorOrders
    /\ now = StartTime
    /\ place_orders_def = "quotes"
    /\ pc = "po_cancel"
    /\ exc = "none"
    /\ quotes \in {LadderQuotes(n) : n \in 1..MaxQuotes}
    /\ qi = 1
    /\ order_id = << >>
    /\ args = [prior |-> current_orders]
    /\ ret = << >>
    /\ NoObservations

\* line 675: await self.cancel_all_orders()
PO_CancelAll ==
    /\ pc = "po_cancel"
    /\ \E c \in cancel_all_orders_outcomes(current_orders) :
        /\ current_orders' = c.orders
        /\ pc' = IF c.raised THEN "po_raised" ELSE "po_submit"
        /\ exc' = IF c.raised THEN "cancel_all_orders" ELSE exc
    /\ UNCHANGED <<config, position_size, last_trade_price, order_book, vwap,
                   last_price_update, volatility,
                   price_history, last_health_check, is_healthy,
                   is_running>>
    /\ UNCHANGED <<envVars, localVars, unitVars, obsVars>>

\* lines 678-697: one turn of the for loop
PO_Submit ==
    /\ pc = "po_submit"
    /\ \E r \in place_order_results(current_orders, placed) :
        /\ placed' = Append(placed, Logged(quotes[qi], r))
        /\ IF r.kind = "raise"
           THEN /\ pc' = "po_raised"
                /\ exc' = "place_order_and_get_order_id"
                /\ UNCHANGED <<current_orders, qi>>
           ELSE /\ current_orders' = TrackQuote(current_orders, r, quotes[qi])
                /\ qi' = qi + 1
                /\ pc' = IF qi = Len(quotes) THEN "po_done" ELSE "po_submit"
                /\ UNCHANGED exc
    /\ UNCHANGED <<config, position_size, last_trade_price, order_book, vwap,
                   last_price_update, volatility,
                   price_history, last_health_check, is_healthy,
                   is_running>>
    /\ UNCHANGED <<envVars, quotes, order_id, unitVars>>
    /\ UNCHANGED <<stop_requested, late_tick, reset_failed, checks, recovered,
                   inv_order, steps>>

NextPlace ==
    \/ PO_CancelAll
    \/ PO_Submit

SpecPlace == InitPlace /\ [][NextPlace]_vars

(***************************************************************************)
(* reset (README.md 740-762) called twice in a row on an engine in any     *)
(* state.  The steps of reset are the loop's ResetCancel and ResetPosition;*)
(* a completed reset leaves pc at the while test, which here stands for    *)
(* "reset has returned to its caller".                                     *)
(***************************************************************************)
\* the fields of the engine, as one value
EngineState ==
    [config |-> config, current_orders |-> current_orders,
     position_size |-> position_size, last_trade_price |-> last_trade_price,
     order_book |-> order_book, vwap |-> vwap,
     last_price_update |-> last_price_update, volatility |-> volatility,
     price_history |-> price_history, last_health_check |-> last_health_check, is_healthy |-> is_healthy,
     is_running |-> is_running]

InitReset ==
    /\ config \in LoopConfigs
    /\ current_orders \in PriorOrders
    /\ position_size \in ExchangePositions
    /\ last_trade_price \in {<< >>} \cup {<<p>> : p \in TradePrices}
    /\ order_book \in {EmptyBook} \cup {SyntheticBook(p) : p \in TradePrices}
    /\ vwap \in {<< >>} \cup {<<p>> : p \in TradePrices}
    /\ last_price_update = 0
    /\ volatility = 1
    /\ price_history = << >>
    /\ last_health_check \in {0, StartTime}
    /\ is_healthy \in BOOLEAN
    /\ is_running \in BOOLEAN
    /\ now = StartTime
    /\ place_orders_def = "quotes"
    /\ pc = "call_reset"
    /\ exc = "none"
    /\ quotes = << >>
    /\ qi = 0
    /\ order_id = << >>
    /\ args = [calls |-> 0, prior |-> current_orders]
    /\ ret = << >>
    /\ NoObservations

\* the caller awaits self.reset(): line 745, up to the first await; on the
\* second call the state the first call left is kept in ret
Call_reset ==
    /\ \/ pc = "call_reset"
       \/ pc = LoopTest(TRUE) /\ args.calls = 1
    /\ is_running' = FALSE
    /\ pc' = "reset_cancel"
    /\ args' = [args EXCEPT !.calls = @ + 1]
    /\ ret' = IF args.calls = 1 THEN <<EngineState>> ELSE ret
    /\ UNCHANGED <<config, current_orders, position_size, last_trade_price,
                   order_book, vwap, last_price_update, volatility, price_history,
                   last_health_check, is_healthy>>
    /\ UNCHANGED <<envVars, exc, localVars, obsVars>>

NextReset ==
    \/ Call_reset
    \/ ResetCancel
    \/ ResetPosition

SpecReset == InitReset /\ [][NextReset]_vars

(***************************************************************************)
(* start_interval_loop invoked twice on one engine, as two asyncio tasks.  *)
(* pc, exc and the locals are those of the task that runs; args keeps the  *)
(* context of the other task, which is suspended.                          *)
(***************************************************************************)
\* how many times the event loop changes task in a run
MaxSwitches == 1

\* the context of the running coroutine, and the number of task switches so far
TaskContext ==
    [pc |-> pc, exc |-> exc, quotes |-> quotes, qi |-> qi, order_id |-> order_id,
     switches |-> args.switches + 1]

\* a coroutine gives up control only inside an await that really waits: the
\* exchange calls, asyncio.sleep, and before its first step.  Not before
\* update_order_book (no await since the health check) nor before the
\* last-trade-price update (requests.get and get_market_price_data are
\* synchronous calls).
SuspensionPoints ==
    {"idle", "stopped", "health_check", "reset_cancel", "reset_position",
     "update_position", "update_vwap", "manage_inventory", "place_orders",
     "submit", "sleep", "backoff"}

\* the positions inside a tick, between the while test and the sleep
TickPositions ==
    {"reset_cancel", "reset_position", "update_order_book", "update_position",
     "update_vwap", "manage_inventory", "place_orders", "submit", "last_price"}

InitTasks ==
    /\ config \in {c \in LoopConfigs :
                      c.min_order_size <= c.max_order_size /\ c.base_spread > 0}
    /\ current_orders = EmptyMap
    /\ position_size = 0
    /\ last_trade_price = << >>
    /\ order_book = EmptyBook
    /\ vwap = << >>
    /\ last_price_update = 0
    /\ volatility = 1
    /\ price_history = << >>
    /\ last_health_check = 0
    /\ is_healthy = TRUE
    /\ is_running = FALSE
    /\ now = MaxTime - BackoffSleep
    /\ place_orders_def = "levels"
    /\ pc = "idle"
    /\ exc = "none"
    /\ quotes = << >>
    /\ qi = 0
    /\ order_id = << >>
    /\ args = [pc |-> "idle", exc |-> "none", quotes |-> << >>, qi |-> 0,
               order_id |-> << >>, switches |-> 0]
    /\ ret = << >>
    /\ NoObservations

\* the event loop resumes the other task while this one is suspended
SwitchTask ==
    /\ pc \in SuspensionPoints
    /\ args.switches < MaxSwitches
    /\ pc' = args.pc
    /\ exc' = args.exc
    /\ quotes' = args.quotes
    /\ qi' = args.qi
    /\ order_id' = args.order_id
    /\ args' = TaskContext
    /\ UNCHANGED <<engineVars, envVars, ret, obsVars>>

NextTasks ==
    \/ Next
    \/ SwitchTask

SpecTasks == InitTasks /\ [][NextTasks]_vars

(***************************************************************************)
(* The Skew Engine: _skew (README.md 307-327).  skew is the value of       *)
(* _generate_skew after round(skew, 2), in hundredths.                     *)
(***************************************************************************)
\* _generate_skew (README.md 344-382): 0.0 when the last trade price or the
\* VWAP is missing; otherwise 0.3 * price + 0.5 * inventory + 0.2 * book with
\* each term a tanh, the inventory term having the sign opposite to
\* position - target.  The values the result can take after round(skew, 2),
\* among the sample FnSkews (hundredths).
FnSkews == {-100, -50, -1, 0, 1, 50, 100}

_generate_skew(last_price, vwap_price, position, target) ==
    IF last_price = << >> \/ vwap_price = << >>
    THEN {0}
    ELSE {k \in FnSkews :
            /\ (position - target >= 0) => k <= 50
            /\ (position - target <= 0) => k >= -50}

_skew(skew, position, target) ==
    LET bid0 == Max(0, Min(skew, 100))
        ask0 == Max(0, Min(-skew, 100))
        inventory_delta == position - target
        bid1 == bid0 + (IF inventory_delta < 0 THEN 100 * inventory_delta ELSE 0)
        ask1 == ask0 - (IF inventory_delta > 0 THEN 100 * inventory_delta ELSE 0)
        bid2 == IF inventory_delta > -inventory_extreme THEN bid1 ELSE 100
        ask2 == IF inventory_delta < inventory_extreme THEN ask1 ELSE 100
    IN  IF (bid2 = 100 \/ ask2 = 100) /\ inventory_delta = 0
        THEN <<0, 0>>
        ELSE <<Abs(bid2), Abs(ask2)>>

(***************************************************************************)
(* The Spread Calculator: _adjusted_spread (README.md 543-587).  Decimal   *)
(* values are exact fractions <<numerator, denominator>>, denominator > 0. *)
(***************************************************************************)
RMul(x, y) == <<x[1] * y[1], x[2] * y[2]>>
RLeq(x, y) == x[1] * y[2] <= y[1] * x[2]
REq(x, y) == x[1] * y[2] = y[1] * x[2]
RMin(x, y) == IF RLeq(x, y) THEN x ELSE y
RMax(x, y) == IF RLeq(y, x) THEN x ELSE y

RECURSIVE Volume(_)
\* sum(level[1] for level in levels)
Volume(levels) ==
    IF levels = << >> THEN 0 ELSE Head(levels)[2] + Volume(Tail(levels))

\* levels[:n]
Top(levels, n) == SubSeq(levels, 1, Min(n, Len(levels)))

ClampSpread_unbounded(adjusted, base_spread) == adjusted
\* lines 580-583: max(base_spread / 2, min(adjusted_spread, base_spread * 5))
ClampSpread(adjusted, base_spread) ==
    RMax(<<base_spread, 2>>, RMin(adjusted, <<base_spread * 5, 1>>))

VolatilityFactor_one_per_cent(vol) == <<100 + vol, 100>>
\* line 552: Decimal('1') + (self.volatility / Decimal('0.01'))
VolatilityFactor(vol) == <<1 + vol, 1>>

\* lines 569-575: wider spreads in the hours 14-16 and 21-22
TimeFactor(hour) ==
    IF hour \in {14, 15, 16} THEN <<12, 10>>
    ELSE IF hour \in {21, 22} THEN <<11, 10>>
    ELSE <<1, 1>>

DepthFactor_sum_of_sides(book) ==
    IF book.bids # << >> /\ book.asks # << >>
    THEN <<Volume(Top(book.bids, 5)) + Volume(Top(book.asks, 5)) + 101,
           Volume(Top(book.bids, 5)) + Volume(Top(book.asks, 5)) + 1>>
    ELSE <<3, 2>>
\* lines 560-566: with bids and asks both present,
\* 1 + 100 / (avg_volume + 1) with avg_volume = (bid_volume + ask_volume) / 2,
\* which is (bid_volume + ask_volume + 202) / (bid_volume + ask_volume + 2);
\* else Decimal('1.5')
DepthFactor(book) ==
    LET bid_volume == Volume(Top(book.bids, 5))
        ask_volume == Volume(Top(book.asks, 5))
    IN  IF book.bids # << >> /\ book.asks # << >>
        THEN <<bid_volume + ask_volume + 202, bid_volume + ask_volume + 2>>
        ELSE <<3, 2>>

\* line 578: base_spread * volatility_factor * inventory_factor * depth_factor
\* * time_factor, for a given depth factor
SpreadProduct(cfg, vol, position, depth_factor, hour) ==
    LET volatility_factor == VolatilityFactor(vol)
        inventory_diff == Abs(position - cfg.inventory_target)
        max_inventory == cfg.max_position_size
        inventory_factor == <<2 * max_inventory + inventory_diff, 2 * max_inventory>>
        time_factor == TimeFactor(hour)
    IN  RMul(RMul(RMul(RMul(<<cfg.base_spread, 1>>, volatility_factor),
                       inventory_factor), depth_factor), time_factor)

\* lines 549-578: the product of the four factors, before the limits
UnclampedSpread(cfg, vol, position, book, hour) ==
    SpreadProduct(cfg, vol, position, DepthFactor(book), hour)

_adjusted_spread(cfg, vol, position, book, hour) ==
    ClampSpread(UnclampedSpread(cfg, vol, position, book, hour), cfg.base_spread)

(***************************************************************************)
(* The Quote Generator: generate_quotes (README.md 634-654) with the       *)
(* shapes of the ladders of _prices (446-475) and _sizes (492-526).  A     *)
(* quote is [side, level]; prices and sizes are not carried.               *)
(***************************************************************************)
max_orders == 8

\* _prices and _sizes test bid_skew >= 1 first, then ask_skew >= 1: a ladder
\* of max_orders on one side, else max_orders // 2 on either side
LadderShape(bid_skew, ask_skew) ==
    IF bid_skew >= 100 THEN [buys |-> max_orders, sells |-> 0]
    ELSE IF ask_skew >= 100 THEN [buys |-> 0, sells |-> max_orders]
    ELSE [buys |-> max_orders \div 2, sells |-> max_orders \div 2]

RECURSIVE GCD(_, _)
GCD(a, b) == IF b = 0 THEN a ELSE GCD(b, a % b)

\* a fraction in lowest terms
RReduce(x) ==
    LET g == GCD(Abs(x[1]), x[2]) IN <<x[1] \div g, x[2] \div g>>

\* np.linspace(start, stop, num): num evenly spaced values from start to stop,
\* both included, start + i * (stop - start) / (num - 1).  Each value is kept
\* as its distance from start, span being |stop - start|, over the common
\* denominator span[2] * (num - 1)
Linspace(span, num) ==
    IF num = 1 THEN << <<0, 1>> >>
    ELSE [i \in 1..num |-> <<(i - 1) * span[1], span[2] * (num - 1)>>]

\* _prices, lines 453-460, the branches taken when a skew is at least 1:
\* max_orders prices from the best price of the side to that price -/+
\* spread * max_orders.  away[i] is the distance of price i from best
OneSidedPrices(book, spread, bid_skew, ask_skew) ==
    IF bid_skew >= 100
    THEN [side |-> "Buy", best |-> book.bids[1][1],
          away |-> Linspace(RMul(spread, <<max_orders, 1>>), max_orders)]
    ELSE [side |-> "Sell", best |-> book.asks[1][1],
          away |-> Linspace(RMul(spread, <<max_orders, 1>>), max_orders)]

\* lines 642-650: the Buy quotes by level, then the Sell quotes by level
QuoteList(shape) ==
    [k \in 1..(shape.buys + shape.sells) |->
        IF k <= shape.buys THEN [side |-> "Buy", level |-> k]
        ELSE [side |-> "Sell", level |-> k - shape.buys]]

\* generate_quotes: line 638 unpacks the un-awaited self._skew() (TypeError);
\* _prices then reads order_book['bids'][0][0] and ['asks'][0][0] (IndexError
\* on an empty side); otherwise the list of quotes is returned
generate_quotes(skews, book) ==
    IF generate_quotes_raises
    THEN [raised |-> "TypeError", quotes |-> << >>]
    ELSE IF book.bids = << >> \/ book.asks = << >>
    THEN [raised |-> "IndexError", quotes |-> << >>]
    ELSE [raised |-> "none", quotes |-> QuoteList(LadderShape(skews[1], skews[2]))]

(***************************************************************************)
(* The Volatility Estimator: update_volatility (README.md 604-617).        *)
(* Returns are floats in the source; here they are fixed-point, in units   *)
(* of 0.0001, and the estimate is cut to whole units of Decimal('0.01').   *)
(***************************************************************************)
volatility_window == 20

EvictOldest_keeps_all(history) == history
\* lines 610-611: if len(self.price_history) > self.volatility_window: pop(0)
EvictOldest(history) ==
    IF Len(history) > volatility_window THEN Tail(history) ELSE history

\* line 614: price / self.price_history[i - 1] - 1 for every i > 0
Returns(history) ==
    [i \in 1..(Len(history) - 1) |->
        ((history[i + 1] - history[i]) * 10000) \div history[i]]

RECURSIVE Sum(_)
Sum(xs) == IF xs = << >> THEN 0 ELSE Head(xs) + Sum(Tail(xs))

ISqrt(x) == CHOOSE v \in 0..x : v * v <= x /\ (v + 1) * (v + 1) > x

\* line 615: np.std(returns) * np.sqrt(len(returns)), which is the square
\* root of the sum of the squared deviations from the mean
VolatilityOf(returns) ==
    LET n == Len(returns)
        squares == Sum([i \in 1..n |-> returns[i] * returns[i]])
        total == Sum(returns)
    IN  ISqrt((n * squares - total * total) \div n) \div 100

(***************************************************************************)
(* The sizes of the ladder: _sizes (README.md 492-526).  Sizes are exact   *)
(* fractions; skews are in hundredths.  A ladder is kept as its number of  *)
(* sizes with the first and the last of them: np.full repeats one value,   *)
(* and the values of np.geomspace run monotonically from start to stop,    *)
(* both included.                                                          *)
(***************************************************************************)
\* skew ** 0.5, in hundredths (exact for the skews of UnitSkews)
Root(skew) == ISqrt(100 * skew)

_sizes(bid_skew, ask_skew, cfg) ==
    LET \* np.median([min_order_size, max_order_size / 2]): the mean of the two
        fill == <<2 * cfg.min_order_size + cfg.max_order_size, 4>>
        bid_min == <<cfg.min_order_size * (100 + Root(bid_skew)), 100>>
        bid_upper == <<cfg.max_order_size * (100 - bid_skew), 100>>
        ask_min == <<cfg.min_order_size * (100 + Root(ask_skew)), 100>>
        ask_upper == <<cfg.max_order_size * (100 - ask_skew), 100>>
    IN  IF bid_skew >= 100
        THEN [bids |-> <<[count |-> max_orders, first |-> fill, last |-> fill]>>,
              asks |-> << >>]
        ELSE IF ask_skew >= 100
        THEN [bids |-> << >>,
              asks |-> <<[count |-> max_orders, first |-> fill, last |-> fill]>>]
        ELSE [bids |-> <<[count |-> max_orders \div 2,
                          first |-> IF bid_skew >= ask_skew THEN bid_min
                                    ELSE <<cfg.min_order_size, 1>>,
                          last |-> bid_upper]>>,
              asks |-> <<[count |-> max_orders \div 2,
                          first |-> IF ask_skew >= bid_skew THEN ask_min
                                    ELSE <<cfg.min_order_size, 1>>,
                          last |-> ask_upper]>>]

(***************************************************************************)
(* Function-level runs: the engine is put in a state drawn from the sets   *)
(* below and one method is called on it.                                   *)
(***************************************************************************)
\* calls of update_volatility followed
MaxArrivals == 22

\* the k-th trade price to arrive: each arrival has its own price
FeedPrice(k) == 10000 + 100 * k

Optional(values) == {<< >>} \cup {<<v>> : v \in values}

\* largest volatility estimate drawn, in units of Decimal('0.01')
MaxVolatility == 4

FnPositions == {-120, -50, -49, -2, -1, 0, 1, 2, 49, 50, 120}
FnHours == {0, 14, 16, 21, 23}
FnBooks ==
    {EmptyBook, SyntheticBook(10000),
     [bids |-> <<<<9999, 1>>>>, asks |-> << >>],
     [bids |-> <<<<9999, 1>>>>, asks |-> <<<<10001, 1>>>>]}
\* skews in [0, 1] whose square root is a whole number of hundredths
UnitSkews == {0, 1, 25, 49, 81, 100}
\* configurations with 0 < min_order_size <= max_order_size
FnConfigs ==
    {[inventory_target |-> t, max_position_size |-> 100, order_size |-> 10,
      base_spread |-> b, num_levels |-> 1, min_order_size |-> m[1],
      max_order_size |-> m[2]] :
        t \in {0, 10}, b \in {1, 10}, m \in {<<1, 10>>, <<5, 8>>}}

InitFn ==
    /\ config \in FnConfigs
    /\ current_orders = EmptyMap
    /\ position_size \in FnPositions
    /\ price_history = << >>
    /\ last_price_update = 0
    /\ last_health_check = 0
    /\ is_healthy = TRUE
    /\ is_running = FALSE
    /\ now = StartTime
    /\ place_orders_def = "quotes"
    /\ exc = "none"
    /\ quotes = << >>
    /\ qi = 0
    /\ order_id = << >>
    /\ ret = << >>
    /\ NoObservations
    /\ \/ /\ pc = "call__skew"
          /\ last_trade_price \in Optional(TradePrices)
          /\ vwap \in Optional(TradePrices)
          /\ args \in [skew : _generate_skew(last_trade_price, vwap, position_size,
                                              config.inventory_target)]
          /\ order_book = EmptyBook
          /\ volatility = 1
       \/ /\ pc = "call__adjusted_spread"
          /\ last_trade_price = << >>
          /\ vwap = << >>
          /\ args \in [hour : FnHours]
          /\ order_book \in FnBooks
          /\ volatility \in 0..MaxVolatility
       \/ /\ pc = "call_generate_quotes"
          /\ last_trade_price \in Optional(TradePrices)
          /\ vwap \in Optional(TradePrices)
          /\ args \in [skew : _generate_skew(last_trade_price, vwap, position_size,
                                              config.inventory_target)]
          /\ order_book \in FnBooks
          /\ volatility = 1
       \/ /\ pc = "call__prices"
          /\ last_trade_price \in Optional(TradePrices)
          /\ vwap \in Optional(TradePrices)
          /\ args \in [skew : _generate_skew(last_trade_price, vwap, position_size,
                                              config.inventory_target),
                        hour : FnHours]
          /\ \E k \in 1..2 :
                _skew(args.skew, position_size, config.inventory_target)[k] >= 100
          /\ order_book \in {b \in FnBooks : b.bids # << >> /\ b.asks # << >>}
          /\ volatility \in 0..MaxVolatility
       \/ /\ pc = "call__sizes"
          /\ config.inventory_target = 0
          /\ config.base_spread = 10
          /\ position_size = 0
          /\ last_trade_price = << >>
          /\ vwap = << >>
          /\ args \in [bid_skew : UnitSkews, ask_skew : UnitSkews]
          /\ order_book = EmptyBook
          /\ volatility = 1
       \/ /\ pc = "call_update_volatility"
          /\ config.inventory_target = 0
          /\ config.base_spread = 10
          /\ config.min_order_size = 1
          /\ position_size = 0
          /\ last_trade_price = << >>
          /\ vwap = << >>
          /\ args = [calls |-> 0, log |-> << >>]
          /\ order_book = EmptyBook
          /\ volatility = 1

Call_skew ==
    /\ pc = "call__skew"
    /\ ret' = _skew(args.skew, position_size, config.inventory_target)
    /\ pc' = "returned__skew"
    /\ UNCHANGED <<engineVars, envVars, exc, localVars, args, obsVars>>

Call_adjusted_spread ==
    /\ pc = "call__adjusted_spread"
    /\ ret' = _adjusted_spread(config, volatility, position_size, order_book, args.hour)
    /\ pc' = "returned__adjusted_spread"
    /\ UNCHANGED <<engineVars, envVars, exc, localVars, args, obsVars>>

\* self._skew() awaited by a caller of generate_quotes would give the pair;
\* generate_quotes is run on the engine as it stands
Call_generate_quotes ==
    /\ pc = "call_generate_quotes"
    /\ ret' = generate_quotes(_skew(args.skew, position_size, config.inventory_target),
                              order_book)
    /\ pc' = "returned_generate_quotes"
    /\ UNCHANGED <<engineVars, envVars, exc, localVars, args, obsVars>>

\* _prices called with the pair _skew returns, a skew being at least 1;
\* line 451 takes the spread from _adjusted_spread
Call_prices ==
    /\ pc = "call__prices"
    /\ LET skews == _skew(args.skew, position_size, config.inventory_target)
           spread == _adjusted_spread(config, volatility, position_size, order_book,
                                      args.hour)
       IN  ret' = OneSidedPrices(order_book, RReduce(spread), skews[1], skews[2])
    /\ pc' = "returned__prices"
    /\ UNCHANGED <<engineVars, envVars, exc, localVars, args, obsVars>>

Call_sizes ==
    /\ pc = "call__sizes"
    /\ ret' = _sizes(args.bid_skew, args.ask_skew, config)
    /\ pc' = "returned__sizes"
    /\ UNCHANGED <<engineVars, envVars, exc, localVars, args, obsVars>>

\* one call of update_volatility, the last trade price being what the feed
\* left: None, or the price of this arrival.  args.log keeps the prices
\* that arrived, ret the returns of the last recomputation
Call_update_volatility ==
    /\ pc = "call_update_volatility"
    /\ args.calls < MaxArrivals
    /\ \E p \in Optional({FeedPrice(Len(args.log) + 1)}) :
        /\ last_trade_price' = p
        /\ IF p = << >>
           THEN /\ UNCHANGED <<price_history, volatility, ret>>
                /\ args' = [args EXCEPT !.calls = @ + 1]
           ELSE LET history == EvictOldest(Append(price_history, p[1]))
                IN  /\ price_history' = history
                    /\ IF Len(history) >= 2
                       THEN /\ ret' = Returns(history)
                            /\ volatility' = VolatilityOf(Returns(history))
                       ELSE UNCHANGED <<ret, volatility>>
                    /\ args' = [calls |-> args.calls + 1,
                                log |-> Append(args.log, p[1])]
    /\ UNCHANGED <<config, current_orders, position_size, order_book, vwap,
                   last_price_update, last_health_check, is_healthy, is_running>>
    /\ UNCHANGED <<envVars, pc, exc, localVars, obsVars>>

NextFn ==
    \/ Call_skew
    \/ Call_adjusted_spread
    \/ Call_generate_quotes
    \/ Call_prices
    \/ Call_sizes
    \/ Call_update_volatility

SpecFn == InitFn /\ [][NextFn]_vars

(***************************************************************************)
(* Properties of the control loop (specification Spec).                    *)
(***************************************************************************)
\* C1: an exception raised by a step of the tick body outside reset is caught
\* at the loop boundary (the loop is then in its backoff sleep), the sleep
\* lasts BackoffSleep seconds, and after it the next tick begins; the loop
\* goes to Stopped from there only when a stop has been requested.
C1_TickExceptionNeverEndsLoop ==
    [][/\ (exc # "none") => (pc = "backoff")
       /\ (pc = "backoff" /\ exc # "reset" /\ pc' # "backoff")
            => /\ now' = now + BackoffSleep
               /\ \/ pc' = "health_check"
                  \/ pc' = "stopped" /\ stop_requested]_vars

\* a tick has begun after an exception raised outside reset was handled
C1_Witness == recovered /\ ~stop_requested /\ pc = "health_check"

\* C2: when reset fails part-way, the loop does not terminate (no stop having
\* been requested): it goes on to another tick.
C2_FailedResetIsRetried == (reset_failed /\ ~stop_requested) => pc # "stopped"

\* C3: once a stop has been requested, is_running stays false and no further
\* tick begins.
C3_StopIsFinal == stop_requested => (~is_running /\ ~late_tick)

\* C9: the market order requested by manage_inventory, applied in its
\* direction to the reported position, leaves |position| within
\* max_position_size.
C9_InventoryOrderWithinLimit ==
    (inv_order # << >>) =>
        Abs(PositionAfter(position_size, inv_order[1])) <= config.max_position_size

\* C10: between a failed health check and the failed health check that
\* follows it exactly one reset was begun, and no second reset begins
\* before the exchange is queried again.
C10_OneResetBetweenFailedChecks ==
    /\ checks.resets <= 1
    /\ checks.gap \in {-1, 1}

\* two health checks failed in a row
C10_Witness == checks.gap = 1 /\ checks.last = "fail"

\* C11: two successive get_market queries of the health check are at least
\* health_check_interval seconds apart, in runs with resets as in runs
\* without.
C11_HealthQueriesSpaced ==
    checks.apart = -1 \/ checks.apart >= health_check_interval

\* C12: a failed health check raises nothing (the loop does not go to its
\* except clause), it leaves is_healthy false and hands over to reset; and
\* while a failed check has not been followed by a completed reset, no step
\* of the tick body (order-book refresh, position refresh, VWAP refresh,
\* inventory order, quote placement) has run.
C12_FailedCheckHoldsTickUntilReset ==
    [][/\ (pc = "health_check") => (exc' = "none" /\ pc' # "backoff")
       /\ (pc = "health_check" /\ pc' # pc /\ checks'.pending)
            => (~is_healthy' /\ pc' = "reset_cancel")
       /\ checks'.pending => steps' = << >>]_vars

\* a health check has failed and its reset is under way
C12_Witness ==
    /\ checks.pending
    /\ checks.last = "fail"
    /\ ~is_healthy
    /\ pc = "reset_cancel"
    /\ steps = << >>

\* the order in which the specification lists the steps of a healthy tick
TickOrder ==
    <<"update_order_book", "update_position", "update_vwap", "manage_inventory",
      "generate_quotes", "cancel_all_orders", "submit", "last_price">>

Rank(step) == CHOOSE i \in DOMAIN TickOrder : TickOrder[i] = step

\* C13: in a tick of the quote-ladder engine the calls are made in the order
\* order-book refresh, position refresh, VWAP refresh, Inventory Manager,
\* quote computation, cancel-all, submissions, last-trade-price update; in
\* particular generate_quotes is called before cancel_all_orders.
C13_StepsInSpecifiedOrder ==
    (place_orders_def = "quotes") =>
        \A i, j \in DOMAIN steps :
            (i < j) => Rank(steps[i]) <= Rank(steps[j])

\* C17: in a tick whose order-book cache is empty, the quote computation
\* raises nothing: the tick does not end in the except clause right after
\* generate_quotes was called.
C17_EmptyBookTickCompletes ==
    ~(/\ pc = "backoff"
      /\ place_orders_def = "quotes"
      /\ order_book = EmptyBook
      /\ steps # << >>
      /\ steps[Len(steps)] = "generate_quotes")

\* the constraints a configuration has to satisfy
ValidConfig(cfg) == cfg.min_order_size <= cfg.max_order_size /\ cfg.base_spread > 0

\* C20: an engine constructed with an invalid configuration never enters the
\* Running state and never executes a tick.
C20_InvalidConfigAborts ==
    (~ValidConfig(config)) => (~is_running /\ pc = "idle" /\ steps = << >>)

\* the calls of the current tick include one of the named ones
Called(names) == \E i \in DOMAIN steps : steps[i] \in names

\* C22: in a tick where the inventory market order failed (place_order raised
\* in manage_inventory), the quoting cycle of that tick still ran: the tick
\* does not reach the except clause without having called cancel-all.
C22_QuotingSurvivesInventoryFailure ==
    (pc = "backoff" /\ exc = "manage_inventory") => Called({"cancel_all_orders"})

\* C23: when a tick computes the spread with a trade price known, that price
\* has been fed to update_volatility: it is the newest entry of price_history.
C23_PriceFedBeforeSpread ==
    (Called({"generate_quotes", "calculate_order_prices"})
        /\ last_trade_price # << >>)
    => (/\ price_history # << >>
        /\ price_history[Len(price_history)] = last_trade_price[1])

\* C29: whenever manage_inventory requests a market order, the size it asks
\* for is strictly positive, whatever position the exchange reported.
C29_InventoryOrderSizePositive ==
    (inv_order # << >>) => inv_order[1].size > 0

(***************************************************************************)
(* Properties of the quote-ladder place_orders (specification SpecPlace).  *)
(***************************************************************************)
\* the entries the submissions of this call should have left
Accepted(log) ==
    [k \in IssuedIds(log) |->
        log[CHOOSE i \in DOMAIN log : log[i].kind = "id" /\ log[i].id = k].params]

Count(log, kinds) == Cardinality({i \in DOMAIN log : log[i].kind \in kinds})

C5_FailureDoesNotStopSubmissions ==
    (pc \in {"po_done", "po_raised"} /\ placed # << >>) =>
        /\ Len(placed) = Len(quotes)
        /\ \A i \in DOMAIN placed : placed[i].params = quotes[i]

\* C6: after the cancel pass, every key of current_orders is an identifier
\* that a submission of this call returned, and a quote whose submission
\* returned no identifier has no entry.
C6_OnlyIdentifiedOrdersTracked ==
    (pc \in {"po_submit", "po_done"} \/ (pc = "po_raised" /\ placed # << >>)) =>
        /\ DOMAIN current_orders \subseteq IssuedIds(placed)
        /\ \A i \in DOMAIN placed :
              placed[i].kind = "noid" =>
                  \A k \in DOMAIN current_orders : current_orders[k] # placed[i].params

\* a submission returned a transaction reference without an identifier, next
\* to one that was accepted
C6_Witness ==
    /\ pc = "po_done"
    /\ Count(placed, {"noid"}) >= 1
    /\ Count(placed, {"id"}) >= 1
    /\ Cardinality(DOMAIN current_orders) = Count(placed, {"id"})

(***************************************************************************)
(* Properties of the level-based place_orders (specification Spec).        *)
(***************************************************************************)
\* C28: in the level-based place_orders, after the cancel pass, the entries
\* of current_orders are exactly the submissions that returned an
\* identifier, each under that identifier: no entry under a missing key, and
\* none under an identifier left over from an earlier submission.
C28_LevelEntriesOnlyForIdentifiers ==
    (/\ place_orders_def = "levels"
     /\ pc \in {"submit", "last_price", "sleep"}
     /\ Called({"calculate_order_prices"})) =>
        current_orders = Accepted(placed)

(***************************************************************************)
(* Properties of two invocations of the loop (specification SpecTasks).    *)
(***************************************************************************)
\* C21: at most one tick body is in progress at any time: the two tasks are
\* never both inside a tick.
C21_OneTickAtATime ==
    ~(pc \in TickPositions /\ args.pc \in TickPositions)

(***************************************************************************)
(* Properties of reset (specification SpecReset).                          *)
(***************************************************************************)
\* C14: when two consecutive resets have succeeded and the exchange reported
\* the same position to both, the engine state after the second equals the
\* state after the first: order map empty, order-book cache empty, last
\* trade price cleared, is_healthy and is_running true.
C14_ResetIdempotent ==
    (/\ pc = LoopTest(TRUE)
     /\ args.calls = 2
     /\ position_size = ret[1].position_size) =>
        /\ EngineState = ret[1]
        /\ current_orders = EmptyMap
        /\ order_book = EmptyBook
        /\ last_trade_price = << >>
        /\ is_healthy
        /\ is_running

\* two resets have succeeded on an engine that started with tracked orders,
\* a cached price and a cached book, and the exchange reported the same
\* non-zero position both times
C14_Witness ==
    /\ pc = LoopTest(TRUE)
    /\ args.calls = 2
    /\ args.prior # EmptyMap
    /\ vwap # << >>
    /\ position_size = ret[1].position_size
    /\ position_size # 0

(***************************************************************************)
(* Properties of the pure functions (specification SpecFn).                *)
(***************************************************************************)
\* C7: both skews returned by _skew lie in [0, 1].
C7_SkewInUnitInterval ==
    (pc = "returned__skew") =>
        /\ 0 <= ret[1] /\ ret[1] <= 100
        /\ 0 <= ret[2] /\ ret[2] <= 100

\* C8: with base_spread > 0, the spread returned by _adjusted_spread lies in
\* [base_spread / 2, base_spread * 5].
C8_SpreadWithinLimits ==
    (pc = "returned__adjusted_spread" /\ config.base_spread > 0) =>
        /\ RLeq(<<config.base_spread, 2>>, ret)
        /\ RLeq(ret, <<config.base_spread * 5, 1>>)

\* the product of the factors was above the upper limit and was cut to it
C8_Witness ==
    /\ pc = "returned__adjusted_spread"
    /\ config.base_spread > 0
    /\ ~RLeq(UnclampedSpread(config, volatility, position_size, order_book, args.hour),
             <<config.base_spread * 5, 1>>)
    /\ ret = <<config.base_spread * 5, 1>>

\* C15: with position - inventory_target at or beyond +inventory_extreme (and
\* a book with both sides), ask_skew is 1 and generate_quotes returns
\* max_orders Sell quotes and no Buy quote; at or beyond -inventory_extreme
\* bid_skew is 1 and it returns max_orders Buy quotes and no Sell quote.
C15_OneSidedLadderAtExtreme ==
    (/\ pc = "returned_generate_quotes"
     /\ order_book.bids # << >>
     /\ order_book.asks # << >>) =>
        LET delta == position_size - config.inventory_target
            skews == _skew(args.skew, position_size, config.inventory_target)
        IN  /\ (delta >= inventory_extreme) =>
                  /\ skews[2] = 100
                  /\ ret.raised = "none"
                  /\ Len(ret.quotes) = max_orders
                  /\ \A i \in DOMAIN ret.quotes : ret.quotes[i].side = "Sell"
            /\ (delta <= -inventory_extreme) =>
                  /\ skews[1] = 100
                  /\ ret.raised = "none"
                  /\ Len(ret.quotes) = max_orders
                  /\ \A i \in DOMAIN ret.quotes : ret.quotes[i].side = "Buy"

\* C16: when the last trade price or the VWAP is missing, _skew returns the
\* neutral pair (0, 0) whatever the position and the inventory target.
C16_NeutralSkewWithoutData ==
    (pc = "returned__skew" /\ (last_trade_price = << >> \/ vwap = << >>)) =>
        ret = <<0, 0>>

\* the last n elements of a sequence
LastN(xs, n) == SubSeq(xs, Max(1, Len(xs) - n + 1), Len(xs))

\* C18: after every call of update_volatility the history holds at most
\* volatility_window prices and they are the latest arrivals in arrival
\* order; a recomputation uses len(history) - 1 returns; a call with no last
\* trade price leaves the history and the volatility as they were.
C18_PriceHistoryBounded ==
    [][(pc = "call_update_volatility") =>
          /\ Len(price_history') <= volatility_window
          /\ price_history' = LastN(args'.log, volatility_window)
          /\ (last_trade_price' # << >> /\ Len(price_history') >= 2)
                => Len(ret') = Len(price_history') - 1
          /\ (last_trade_price' = << >>)
                => (price_history' = price_history /\ volatility' = volatility)]_vars

\* more prices than the window holds have arrived, the oldest were evicted,
\* and the call just made had no last trade price
C18_Witness ==
    /\ pc = "call_update_volatility"
    /\ Len(args.log) > volatility_window
    /\ Len(price_history) = volatility_window
    /\ price_history[1] = args.log[Len(args.log) - volatility_window + 1]
    /\ Len(ret) = volatility_window - 1
    /\ last_trade_price = << >>

\* a freshly initialised engine, called with position equal to the target
\* and an empty book
FreshEngineAtTarget ==
    /\ pc = "returned__adjusted_spread"
    /\ volatility = 1
    /\ order_book = EmptyBook
    /\ position_size = config.inventory_target

C24_TwoSidedBelowExtreme ==
    LET delta == position_size - config.inventory_target
    IN  /\ (pc = "returned__skew" /\ Abs(delta) < inventory_extreme) =>
              (ret[1] < 100 /\ ret[2] < 100)
        /\ (/\ pc = "returned_generate_quotes"
            /\ order_book.bids # << >>
            /\ order_book.asks # << >>
            /\ Abs(delta) < inventory_extreme) =>
              /\ ret.raised = "none"
              /\ \E i \in DOMAIN ret.quotes : ret.quotes[i].side = "Buy"
              /\ \E i \in DOMAIN ret.quotes : ret.quotes[i].side = "Sell"

\* C25: for every skew pair (and a book with both sides) generate_quotes
\* returns at most max_orders quotes: max_orders quotes of one side when a
\* skew is at least 1, otherwise max_orders \div 2 Buy quotes followed by
\* max_orders \div 2 Sell quotes, each in the order of its levels.
C25_QuoteCountAndOrder ==
    (/\ pc = "returned_generate_quotes"
     /\ order_book.bids # << >>
     /\ order_book.asks # << >>) =>
        LET skews == _skew(args.skew, position_size, config.inventory_target)
            half == max_orders \div 2
        IN  /\ ret.raised = "none"
            /\ Len(ret.quotes) <= max_orders
            /\ IF skews[1] >= 100 \/ skews[2] >= 100
               THEN /\ Len(ret.quotes) = max_orders
                    /\ \A i, j \in DOMAIN ret.quotes :
                          ret.quotes[i].side = ret.quotes[j].side
                    /\ \A i \in DOMAIN ret.quotes : ret.quotes[i].level = i
               ELSE /\ Len(ret.quotes) = 2 * half
                    /\ \A i \in 1..half :
                          /\ ret.quotes[i] = [side |-> "Buy", level |-> i]
                          /\ ret.quotes[half + i] = [side |-> "Sell", level |-> i]

\* the summed sizes of the top five bid and the top five ask levels
TopVolume == Volume(Top(order_book.bids, 5)) + Volume(Top(order_book.asks, 5))

\* _adjusted_spread returned the product made with the given depth factor,
\* held to the limits
SpreadMadeWith(depth_factor) ==
    ret = ClampSpread(SpreadProduct(config, volatility, position_size, depth_factor,
                                    args.hour),
                      config.base_spread)

\* C26, as stated: with a non-empty book the depth factor used by
\* _adjusted_spread is 1 + 100 / (B + A + 1), B and A being the summed sizes
\* of the top five bids and asks.
C26_DepthFromSummedVolume ==
    (/\ pc = "returned__adjusted_spread"
     /\ order_book.bids # << >>
     /\ order_book.asks # << >>) =>
        SpreadMadeWith(<<TopVolume + 101, TopVolume + 1>>)

\* C26, amended: with bids and asks both present the depth factor is
\* 1 + 100 / ((B + A) / 2 + 1), made from the average of the two sums; with
\* either side empty it is the fallback 1.5.
C26_DepthFromAverageVolume ==
    (pc = "returned__adjusted_spread") =>
        IF order_book.bids # << >> /\ order_book.asks # << >>
        THEN SpreadMadeWith(<<TopVolume + 202, TopVolume + 2>>)
        ELSE SpreadMadeWith(<<3, 2>>)

\* a book of five levels of 10 on either side (B + A = 100), and a spread
\* inside the limits: base_spread * (1 + 100 / 51) = base_spread * 302 / 102
C26_Witness ==
    /\ pc = "returned__adjusted_spread"
    /\ order_book = SyntheticBook(10000)
    /\ volatility = 0
    /\ position_size = config.inventory_target
    /\ args.hour = 0
    /\ REq(ret, <<302 * config.base_spread, 102>>)

\* C27: in a one-sided ladder returned by _prices the first price is the
\* best price of the side and every following level is one adjusted spread
\* further away: the step between consecutive levels equals the spread.
C27_LadderStepIsSpread ==
    (pc = "returned__prices") =>
        LET spread == _adjusted_spread(config, volatility, position_size, order_book,
                                       args.hour)
        IN  /\ Len(ret.away) = max_orders
            /\ ret.away[1][1] = 0
            /\ \A i \in 1..(max_orders - 1) :
                  RReduce(<<ret.away[i + 1][1] - ret.away[i][1], ret.away[i][2]>>)
                      = RReduce(spread)

\* the first and the last size of a ladder lie in [min_order_size,
\* max_order_size]
WithinSizeLimits(ladder) ==
    \A size \in {ladder.first, ladder.last} :
        /\ RLeq(<<config.min_order_size, 1>>, size)
        /\ RLeq(size, <<config.max_order_size, 1>>)

\* C30: every size returned by _sizes lies in [min_order_size,
\* max_order_size], for every skew pair in [0, 1] x [0, 1] and every
\* configuration with 0 < min_order_size <= max_order_size, in the one-sided
\* and in the two-sided ladder.
C30_SizesWithinLimits ==
    (/\ pc = "returned__sizes"
     /\ 0 < config.min_order_size
     /\ config.min_order_size <= config.max_order_size) =>
        /\ \A i \in DOMAIN ret.bids : WithinSizeLimits(ret.bids[i])
        /\ \A i \in DOMAIN ret.asks : WithinSizeLimits(ret.asks[i])

====
